---- MODULE Spec2Model ----
(***************************************************************************)
(* A model of dataEng_container_tools/bq.py: the class BQ, its helpers     *)
(* __get_parts, __get_file_type and __get_results, and its operations      *)
(* send_to_gcs and load_from_gcs.                                          *)
(*                                                                         *)
(* Python strings are sequences of one-character strings, so that          *)
(* startswith, slicing, split and == are computed as the code computes     *)
(* them.  Python's None is the empty sequence <<>> and a value v that may  *)
(* be None is <<v>>.                                                       *)
(***************************************************************************)
EXTENDS Naturals, Sequences, FiniteSets

VARIABLES
    pc,           \* position of the running call
    call,         \* the operation called and its arguments
    jobs,         \* the job objects constructed so far, in order
    job_results,  \* the local mapping job_results of the running operation
    ret,          \* the value last returned by a helper
    outcome,      \* how the call ended: nothing yet, a return value or a raise
    log,          \* what self.logger was given
    clock         \* the service's clock

vars == <<pc, call, jobs, job_results, ret, outcome, log, clock>>

\* ------------------------------------------------------------ bounds
MaxUriTokens == 4
MaxOpUriTokens == 2
MaxTableParts == 4

\* ------------------------------------------------------------ values
None == <<>>
Some(v) == <<v>>

\* Python string literals of bq.py
GS_PREFIX == <<"g", "s", ":", "/", "/">>
PARQUET_SUFFIX == <<"p", "a", "r", "q", "u", "e", "t">>
JSON_SUFFIX == <<"j", "s", "o", "n">>
AVRO_SUFFIX == <<"a", "v", "r", "o">>
CSV_SUFFIX == <<"c", "s", "v">>
DEFAULT_DELIMITER == ","

\* ------------------------------------------------------------ str methods
\* s.startswith(p)
startswith(s, p) ==
    /\ Len(s) >= Len(p)
    /\ SubSeq(s, 1, Len(p)) = p

\* s.endswith(p)
endswith(s, p) ==
    /\ Len(s) >= Len(p)
    /\ SubSeq(s, Len(s) - Len(p) + 1, Len(s)) = p

\* s.split(c) for a one-character separator c: the pieces between the
\* separators, the empty ones included; always at least one piece
RECURSIVE split_from(_, _, _, _, _)
split_from(s, c, i, cur, acc) ==
    IF i > Len(s) THEN Append(acc, cur)
    ELSE IF s[i] = c THEN split_from(s, c, i + 1, <<>>, Append(acc, cur))
    ELSE split_from(s, c, i + 1, Append(cur, s[i]), acc)

split(s, c) == split_from(s, c, 1, <<>>, <<>>)

\* "".join(parts)
RECURSIVE join_empty(_)
join_empty(parts) ==
    IF parts = <<>> THEN <<>> ELSE Head(parts) \o join_empty(Tail(parts))

\* c.join(parts)
RECURSIVE join(_, _)
join(parts, c) ==
    IF parts = <<>> THEN <<>>
    ELSE IF Len(parts) = 1 THEN Head(parts)
    ELSE Head(parts) \o <<c>> \o join(Tail(parts), c)

Last(s) == s[Len(s)]

\* ------------------------------------------------------------ helpers of BQ
\* a faulty variant of __get_parts: it drops four characters, not five
get_parts_strip_four(gcs_uri) ==
    LET stripped == IF startswith(gcs_uri, GS_PREFIX)
                    THEN SubSeq(gcs_uri, 5, Len(gcs_uri))
                    ELSE gcs_uri
        uri_parts == split(stripped, "/")
    IN  <<uri_parts[1],
          join_empty(SubSeq(uri_parts, 2, Len(uri_parts) - 1)),
          Last(uri_parts)>>

\* BQ.__get_parts: (bucket, path, filename)
get_parts(gcs_uri) ==
    LET stripped == IF startswith(gcs_uri, GS_PREFIX)
                    THEN SubSeq(gcs_uri, 6, Len(gcs_uri))
                    ELSE gcs_uri
        uri_parts == split(stripped, "/")
    IN  <<uri_parts[1],
          join_empty(SubSeq(uri_parts, 2, Len(uri_parts) - 1)),
          Last(uri_parts)>>

\* BQ.__get_file_type: the SourceFormat member for a suffix
get_file_type(suffix) ==
    IF suffix = PARQUET_SUFFIX THEN "PARQUET"
    ELSE IF suffix = JSON_SUFFIX THEN "NEWLINE_DELIMITED_JSON"
    ELSE IF suffix = AVRO_SUFFIX THEN "AVRO"
    ELSE "CSV"

\* send_to_gcs: output_type = output_uri.split(".")[-1];
\*              dest_format = self.__get_file_type(output_type)
dest_format(output_uri) == get_file_type(Last(split(output_uri, ".")))

\* load_from_gcs: ending = input_uri.split(".")[-1];
\*                file_type = self.__get_file_type(ending)
file_type(input_uri) == get_file_type(Last(split(input_uri, ".")))

\* ------------------------------------------------------------ objects
\* hasattr(obj, name) and obj.name, for the attributes a job or a result
\* object may or may not have
hasattr(obj, name) == name \in DOMAIN obj.attrs
getattr(obj, name) == obj.attrs[name]

\* datetime.ctime(): the timestamp formatted as text
ctime(t) == <<"ctime", t>>

\* BQ.__create_job_id: project_id, job type, then the time of day and ten
\* random characters, which no statement of this module reads
create_job_id(project_id, job_type) == <<project_id, job_type>>

\* The attributes, among those __get_results probes with hasattr, that the
\* imported job classes carry: every job has errors; QueryJob also has
\* total_bytes_billed, total_bytes_processed and query_plan.
job_attributes(kind, errors, billed) ==
    IF kind = "query"
    THEN [a \in {"errors", "total_bytes_billed", "total_bytes_processed", "query_plan"} |->
            CASE a = "errors" -> errors
              [] a = "total_bytes_billed" -> billed
              [] a = "total_bytes_processed" -> Some("bytes_processed")
              [] OTHER -> Some("plan")]
    ELSE [a \in {"errors"} |-> errors]

\* What bq_job.result() returns: a QueryJob gives a row iterator, which has
\* total_rows; an ExtractJob or a LoadJob gives the job, which has not.
result_object(kind) ==
    IF kind = "query"
    THEN [type |-> "RowIterator", attrs |-> [a \in {"total_rows"} |-> Some("rows")]]
    ELSE [type |-> "Job", attrs |-> [a \in {} |-> None]]

\* A job object as its constructor leaves it: not yet begun
new_job(kind, job_id, source, destination, job_config) ==
    [kind |-> kind, job_id |-> job_id, source |-> source,
     destination |-> destination, job_config |-> job_config,
     state |-> "new", started |-> None, ended |-> None,
     attrs |-> job_attributes(kind, None, None),
     result |-> None, exception |-> None]

\* ------------------------------------------------------------ __get_results
\* a faulty variant of the record: the test of end_time is inverted
job_result_inverted_end(bq_job, bq_job_results) ==
    [start_time |-> IF bq_job.started = None THEN None
                    ELSE Some(ctime(bq_job.started[1])),
     end_time |-> IF bq_job.ended # None THEN None
                  ELSE Some(ctime(0)),
     job_errors |-> IF hasattr(bq_job, "errors") THEN None
                    ELSE getattr(bq_job, "errors"),
     total_bytes_billed |-> IF ~hasattr(bq_job, "total_bytes_billed") THEN None
                            ELSE getattr(bq_job, "total_bytes_billed"),
     total_bytes_processed |-> IF ~hasattr(bq_job, "total_bytes_processed") THEN None
                               ELSE getattr(bq_job, "total_bytes_processed"),
     total_rows_returned |-> IF ~hasattr(bq_job_results, "total_rows") THEN None
                             ELSE getattr(bq_job_results, "total_rows"),
     query_plan |-> IF ~hasattr(bq_job, "query_plan") THEN None
                    ELSE getattr(bq_job, "query_plan"),
     job_results |-> Some(bq_job_results)]

\* The job result record of __get_results (the dict literal job_result)
job_result(bq_job, bq_job_results) ==
    [start_time |-> IF bq_job.started = None THEN None
                    ELSE Some(ctime(bq_job.started[1])),
     end_time |-> IF bq_job.ended = None THEN None
                  ELSE Some(ctime(bq_job.ended[1])),
     job_errors |-> IF hasattr(bq_job, "errors") THEN None
                    ELSE getattr(bq_job, "errors"),
     total_bytes_billed |-> IF ~hasattr(bq_job, "total_bytes_billed") THEN None
                            ELSE getattr(bq_job, "total_bytes_billed"),
     total_bytes_processed |-> IF ~hasattr(bq_job, "total_bytes_processed") THEN None
                               ELSE getattr(bq_job, "total_bytes_processed"),
     total_rows_returned |-> IF ~hasattr(bq_job_results, "total_rows") THEN None
                             ELSE getattr(bq_job_results, "total_rows"),
     query_plan |-> IF ~hasattr(bq_job, "query_plan") THEN None
                    ELSE getattr(bq_job, "query_plan"),
     job_results |-> Some(bq_job_results)]

\* ------------------------------------------------------------ inputs
\* The pieces URIs are put together from: the gs:// prefix, the separators,
\* a name, and the four extensions the code tells apart
UriTokens ==
    {GS_PREFIX, <<"/">>, <<".">>, <<"b">>,
     PARQUET_SUFFIX, JSON_SUFFIX, AVRO_SUFFIX, CSV_SUFFIX}

Uris(n) ==
    {join_empty(t) : t \in UNION {[1..k -> UriTokens] : k \in 0..n}}

\* table identifiers: one to MaxTableParts names joined by dots
TableIds ==
    {join(t, ".") : t \in UNION {[1..k -> {<<"p">>, <<"d", "s">>}] : k \in 1..MaxTableParts}}

Queries == {"SELECT 1"}
ProjectIds == {"proj"}
DelimiterArgs == {None, Some(","), Some("|")}

\* what the service may answer
JobErrors == {None, Some("errors")}
BytesBilled == {None, Some("bytes_billed")}
JobExceptions == {"BadRequest", "Forbidden"}
LookupAnswers == {"found", "not_found", "forbidden"}

exception(type, from) == [type |-> type, from |-> from]

NoCall ==
    [op |-> "none", query |-> "", project_id |-> "", uri |-> <<>>,
     delimiter_arg |-> None, delimiter |-> "", table_id |-> <<>>, lookup |-> ""]

NoOutcome == [kind |-> "none", raised |-> None, returned |-> None]
raised(e) == [kind |-> "raised", raised |-> Some(e), returned |-> None]
returned(v) == [kind |-> "returned", raised |-> None, returned |-> Some(v)]

\* job_results = {}
empty_dict == [k \in {} |-> None]

\* a faulty variant of the assignment: the key is misspelt
dict_set_wrong_key(d, key, value) ==
    [k \in DOMAIN d \cup {"job"} |-> IF k = "job" THEN value ELSE d[k]]

\* a faulty variant of the assignment: it overwrites the records stored before
dict_set_clobber(d, key, value) ==
    [k \in DOMAIN d \cup {key} |-> value]

\* job_results[key] = value
dict_set(d, key, value) ==
    [k \in DOMAIN d \cup {key} |-> IF k = key THEN value ELSE d[k]]

\* ------------------------------------------------------------ state after construction
Init ==
    /\ pc = "idle"
    /\ call = NoCall
    /\ jobs = <<>>
    /\ job_results = empty_dict
    /\ ret = None
    /\ outcome = NoOutcome
    /\ log = <<>>
    /\ clock = 1

\* the job __get_results is working on: the one constructed last
cur == Len(jobs)

\* ------------------------------------------------------------ send_to_gcs
\* a faulty variant of the ExtractJobConfig: the default delimiter, whatever
\* the caller gave
extract_config_default_delimiter(format, delimiter) ==
    IF format = "CSV"
    THEN [format |-> format, field_delimiter |-> Some(DEFAULT_DELIMITER),
          autodetect |-> None, write_disposition |-> None]
    ELSE [format |-> format, field_delimiter |-> None,
          autodetect |-> None, write_disposition |-> None]

\* lines 138-142: the ExtractJobConfig
extract_config(format, delimiter) ==
    IF format = "CSV"
    THEN [format |-> format, field_delimiter |-> Some(delimiter),
          autodetect |-> None, write_disposition |-> None]
    ELSE [format |-> format, field_delimiter |-> None,
          autodetect |-> None, write_disposition |-> None]

no_config ==
    [format |-> "", field_delimiter |-> None,
     autodetect |-> None, write_disposition |-> None]

\* lines 144-146: the ExtractJob
extract_job(project_id, queryJob, output_uri, config) ==
    new_job("extract", create_job_id(project_id, "extractJob"),
            queryJob.destination, Some(output_uri), config)

\* lines 126-132: the call, and the QueryJob it constructs
SendToGcs ==
    /\ pc = "idle"
    /\ \E query \in Queries, project_id \in ProjectIds,
          output_uri \in Uris(MaxOpUriTokens), delimiter_arg \in DelimiterArgs :
        /\ call' = [NoCall EXCEPT
                      !.op = "send_to_gcs", !.query = query,
                      !.project_id = project_id, !.uri = output_uri,
                      !.delimiter_arg = delimiter_arg,
                      !.delimiter = IF delimiter_arg = None THEN DEFAULT_DELIMITER
                                    ELSE delimiter_arg[1]]
        /\ jobs' = Append(jobs, new_job("query", create_job_id(project_id, "queryJob"),
                                        Some(query), None, no_config))
    /\ job_results' = empty_dict
    /\ pc' = "query_result"
    /\ UNCHANGED <<ret, outcome, log, clock>>

\* lines 133-146: the query job's record is stored, the format is chosen and
\* the ExtractJob is constructed
SendToGcsExtract ==
    /\ pc = "query_returned"
    /\ job_results' = dict_set(job_results, "queryJob", ret[1])
    /\ jobs' = Append(jobs, extract_job(call.project_id, jobs[1], call.uri,
                                        extract_config(dest_format(call.uri), call.delimiter)))
    /\ pc' = "extract_result"
    /\ UNCHANGED <<call, ret, outcome, log, clock>>

\* lines 148-150
SendToGcsReturn ==
    /\ pc = "extract_returned"
    /\ job_results' = dict_set(job_results, "extractJob", ret[1])
    /\ outcome' = returned(job_results')
    /\ pc' = "returned"
    /\ UNCHANGED <<call, jobs, ret, log, clock>>

\* ------------------------------------------------------------ __get_results
WaitPcs == {"query_result", "extract_result", "load_result"}

\* where the caller goes on once __get_results has returned
after_result(at) ==
    CASE at = "query_result" -> "query_returned"
      [] at = "extract_result" -> "extract_returned"
      [] OTHER -> "load_returned"

\* line 102: bq_job.result() first begins a job that was never begun
ResultBegin ==
    /\ pc \in WaitPcs
    /\ jobs[cur].state = "new"
    /\ jobs' = [jobs EXCEPT ![cur].state = "running", ![cur].started = Some(clock)]
    /\ clock' = clock + 1
    /\ UNCHANGED <<pc, call, job_results, ret, outcome, log>>

\* line 102 returning, then lines 108-124: the service reports the job done,
\* with its end time, its statistics and any errors it kept; the record is
\* built, logged and returned
ResultOk ==
    /\ pc \in WaitPcs
    /\ jobs[cur].state = "running"
    /\ \E errors \in JobErrors, billed \in BytesBilled :
        LET bq_job == [jobs[cur] EXCEPT
                         !.state = "done",
                         !.ended = Some(clock),
                         !.attrs = job_attributes(jobs[cur].kind, errors, billed),
                         !.destination = IF jobs[cur].kind = "query"
                                         THEN Some(<<"anonymous_table", jobs[cur].job_id>>)
                                         ELSE @,
                         !.result = Some(result_object(jobs[cur].kind))]
            bq_job_results == result_object(jobs[cur].kind)
        IN  /\ jobs' = [jobs EXCEPT ![cur] = bq_job]
            /\ IF hasattr(bq_job, "errors")
               THEN /\ ret' = Some(job_result(bq_job, bq_job_results))
                    /\ log' = Append(log, [level |-> "info", exception |-> None,
                                           email |-> None, record |-> ret'])
                    /\ pc' = after_result(pc)
                    /\ UNCHANGED outcome
               ELSE /\ outcome' = raised(exception("AttributeError", "__get_results"))
                    /\ pc' = "raised"
                    /\ UNCHANGED <<ret, log>>
    /\ clock' = clock + 1
    /\ UNCHANGED <<call, job_results>>

\* lines 103-109: what leaves __get_results when bq_job.result() raised e and
\* the handler asked for the service account's email, which is a request to
\* the service that returns or raises in its turn
handler_raises(e, email_answer) ==
    IF email_answer = "returns" THEN e
    ELSE exception(email_answer, "get_service_account_email")

\* lines 104-105: what the handler logs
handler_logs(e, email_answer) ==
    IF email_answer = "returns"
    THEN <<[level |-> "error", exception |-> Some(e),
            email |-> Some("sa@proj"), record |-> None]>>
    ELSE <<>>

EmailAnswers == {"returns", "ServiceUnavailable"}

\* line 102 raising, then lines 103-109; neither caller catches anything
ResultRaise ==
    /\ pc \in WaitPcs
    /\ jobs[cur].state \in {"new", "running"}
    /\ \E type \in JobExceptions, email_answer \in EmailAnswers :
        LET e == exception(type, "result")
        IN  /\ jobs' = [jobs EXCEPT ![cur].state = "failed", ![cur].exception = Some(e)]
            /\ log' = log \o handler_logs(e, email_answer)
            /\ outcome' = raised(handler_raises(e, email_answer))
    /\ pc' = "raised"
    /\ UNCHANGED <<call, job_results, ret, clock>>

\* ------------------------------------------------------------ load_from_gcs
\* a faulty variant of the lookup: the operation goes on when the table is
\* not found
lookup_raises_nothing(table_id, lookup) ==
    IF lookup = "forbidden" THEN Some(exception("Forbidden", "get_table"))
    ELSE None

\* lines 157-160: what the table lookup makes the operation raise, if anything
lookup_raises(table_id, lookup) ==
    IF lookup = "not_found" THEN Some(exception("NotFound", "load_from_gcs"))
    ELSE IF lookup = "forbidden" THEN Some(exception("Forbidden", "get_table"))
    ELSE None

\* a faulty variant of the LoadJobConfig: it overwrites the table
load_config_truncate(format) ==
    [format |-> format, field_delimiter |-> None,
     autodetect |-> Some(TRUE), write_disposition |-> Some("WRITE_TRUNCATE")]

\* lines 169-170: the LoadJobConfig
load_config(format) ==
    [format |-> format, field_delimiter |-> None,
     autodetect |-> Some(TRUE), write_disposition |-> Some("WRITE_APPEND")]

\* lines 162-164 and 171-172: the LoadJob into the table table_id names
load_job(id_parts, input_uri, config) ==
    new_job("load", create_job_id(id_parts[1], "loadJob"),
            Some(input_uri), Some(<<id_parts[1], id_parts[2], id_parts[3]>>), config)

\* lines 152-172
LoadFromGcs ==
    /\ pc = "idle"
    /\ \E table_id \in TableIds, input_uri \in Uris(MaxOpUriTokens),
          lookup \in LookupAnswers :
        LET id_parts == split(table_id, ".")
        IN  /\ call' = [NoCall EXCEPT
                          !.op = "load_from_gcs", !.table_id = table_id,
                          !.uri = input_uri, !.lookup = lookup]
            /\ IF lookup_raises(table_id, lookup) # None
               THEN /\ outcome' = raised(lookup_raises(table_id, lookup)[1])
                    /\ pc' = "raised"
                    /\ UNCHANGED jobs
               ELSE IF Len(id_parts) # 3
               THEN /\ outcome' = raised(exception("ValueError", "load_from_gcs"))
                    /\ pc' = "raised"
                    /\ UNCHANGED jobs
               ELSE /\ jobs' = Append(jobs, load_job(id_parts, input_uri,
                                                     load_config(file_type(input_uri))))
                    /\ pc' = "load_result"
                    /\ UNCHANGED outcome
    /\ job_results' = empty_dict
    /\ UNCHANGED <<ret, log, clock>>

\* lines 174-176
LoadFromGcsReturn ==
    /\ pc = "load_returned"
    /\ job_results' = dict_set(job_results, "loadJob", ret[1])
    /\ outcome' = returned(job_results')
    /\ pc' = "returned"
    /\ UNCHANGED <<call, jobs, ret, log, clock>>

\* ------------------------------------------------------------ the operations
Next ==
    \/ SendToGcs
    \/ SendToGcsExtract
    \/ SendToGcsReturn
    \/ LoadFromGcs
    \/ LoadFromGcsReturn
    \/ ResultBegin
    \/ ResultOk
    \/ ResultRaise

Spec == Init /\ [][Next]_vars

\* ------------------------------------------------------------ the helpers alone
\* A URI is given, and one of the helpers that read URIs is applied to it
InitUri ==
    /\ pc = "uri"
    /\ \E u \in Uris(MaxUriTokens) : call = [NoCall EXCEPT !.op = "uri", !.uri = u]
    /\ jobs = <<>>
    /\ job_results = empty_dict
    /\ ret = None
    /\ outcome = NoOutcome
    /\ log = <<>>
    /\ clock = 1

\* __get_parts(uri)
GetParts ==
    /\ pc = "uri"
    /\ ret' = get_parts(call.uri)
    /\ pc' = "parts"
    /\ UNCHANGED <<call, jobs, job_results, outcome, log, clock>>

\* lines 135-136 of send_to_gcs on the URI
ExportFormat ==
    /\ pc = "uri"
    /\ ret' = dest_format(call.uri)
    /\ pc' = "export_format"
    /\ UNCHANGED <<call, jobs, job_results, outcome, log, clock>>

\* lines 166-167 of load_from_gcs on the URI
LoadFormat ==
    /\ pc = "uri"
    /\ ret' = file_type(call.uri)
    /\ pc' = "load_format"
    /\ UNCHANGED <<call, jobs, job_results, outcome, log, clock>>

NextUri ==
    \/ GetParts
    \/ ExportFormat
    \/ LoadFormat

SpecUri == InitUri /\ [][NextUri]_vars

\* ------------------------------------------------------------ what the claims speak of
ReturnedPcs == {"query_returned", "extract_returned", "load_returned"}

\* the records __get_results has built so far: each is logged once, at info level
records_built == {k \in 1..Len(log) : log[k].level = "info"}

\* the jobs whose wait has ended, either way
waits_ended == {i \in 1..Len(jobs) : jobs[i].state \in {"done", "failed"}}
waits_returned == {i \in 1..Len(jobs) : jobs[i].state = "done"}

\* the format a URI's ending names, as the specification words it
format_by_extension(uri) ==
    IF endswith(uri, <<".">> \o PARQUET_SUFFIX) THEN "PARQUET"
    ELSE IF endswith(uri, <<".">> \o JSON_SUFFIX) THEN "NEWLINE_DELIMITED_JSON"
    ELSE IF endswith(uri, <<".">> \o AVRO_SUFFIX) THEN "AVRO"
    ELSE "CSV"

\* C1: when the table lookup of load_from_gcs reports that table_id does not
\* exist, the call ends raising NotFound and no job was ever constructed,
\* begun or waited on, whatever the input_uri.
C1_NotFoundRaisesWithoutLoad ==
    (call.op = "load_from_gcs" /\ call.lookup = "not_found")
        => /\ pc = "raised"
           /\ outcome.kind = "raised"
           /\ outcome.raised[1].type = "NotFound"
           /\ jobs = <<>>
           /\ records_built = {}

C1_Witness ==
    /\ call.op = "load_from_gcs"
    /\ call.lookup = "not_found"
    /\ call.uri = <<".">> \o PARQUET_SUFFIX
    /\ pc = "raised"

\* C2: whenever a job's wait call raised an exception, that exception was
\* logged and is the exception the caller of the operation receives.
C2_WaitExceptionReachesCaller ==
    \A i \in 1..Len(jobs) :
        jobs[i].state = "failed"
            => /\ outcome.raised = jobs[i].exception
               /\ \E k \in 1..Len(log) :
                    log[k].level = "error" /\ log[k].exception = jobs[i].exception

\* C3: the format chosen for a URI, by the export and by the load alike, is
\* PARQUET, NEWLINE_DELIMITED_JSON or AVRO when the URI ends in .parquet,
\* .json or .avro, and CSV for every other URI.
C3_FormatByExtension ==
    pc \in {"export_format", "load_format"} => ret = format_by_extension(call.uri)

\* C4: the extract job of send_to_gcs is configured with CSV and the caller's
\* delimiter ("," when none was given) when output_uri ends in .csv, and with
\* the selected format and no delimiter when that format is not CSV.
C4_ExtractConfig ==
    \A i \in 1..Len(jobs) :
        jobs[i].kind = "extract"
            => LET config == jobs[i].job_config
               IN  /\ endswith(call.uri, <<".">> \o CSV_SUFFIX)
                        => /\ config.format = "CSV"
                           /\ config.field_delimiter =
                                 IF call.delimiter_arg = None THEN Some(",")
                                 ELSE call.delimiter_arg
                   /\ config.format # "CSV"
                        => /\ config.format = dest_format(call.uri)
                           /\ config.field_delimiter = None

C4_Witness ==
    /\ Len(jobs) = 2
    /\ jobs[2].kind = "extract"
    /\ call.uri = <<".">> \o CSV_SUFFIX
    /\ call.delimiter_arg = Some("|")
    /\ jobs[2].job_config.field_delimiter = Some("|")

\* C5: in send_to_gcs the extract job exists only once the query job's wait
\* has returned, it extracts the query job's destination table to
\* output_uri, no two jobs are ever running at once, and the mapping
\* returned has exactly the keys queryJob and extractJob, each holding the
\* record of its job.
C5_QueryThenExtract ==
    /\ \A i \in 1..Len(jobs) :
        jobs[i].kind = "extract"
            => /\ i = 2
               /\ jobs[1].kind = "query"
               /\ jobs[1].state = "done"
               /\ jobs[1].destination # None
               /\ jobs[2].source = jobs[1].destination
               /\ jobs[2].destination = Some(call.uri)
    /\ Cardinality({i \in 1..Len(jobs) : jobs[i].state = "running"}) <= 1
    /\ (call.op = "send_to_gcs" /\ outcome.kind = "returned")
        => /\ DOMAIN outcome.returned[1] = {"queryJob", "extractJob"}
           /\ outcome.returned[1]["queryJob"] = job_result(jobs[1], jobs[1].result[1])
           /\ outcome.returned[1]["extractJob"] = job_result(jobs[2], jobs[2].result[1])
           /\ jobs[1].state = "done"
           /\ jobs[2].state = "done"

C5_Witness ==
    /\ call.op = "send_to_gcs"
    /\ outcome.kind = "returned"
    /\ Len(jobs) = 2
    /\ jobs[2].started[1] > jobs[1].ended[1]

\* C6: every record __get_results returns, for a query, an extract or a load
\* job whose wait returned, has an end_time that is not null.
C6_EndTimeSet ==
    /\ pc \in ReturnedPcs => (ret # None /\ ret[1].end_time # None)
    /\ \A k \in DOMAIN job_results : job_results[k].end_time # None

C6_Witness ==
    /\ pc = "load_returned"
    /\ jobs[1].kind = "load"
    /\ ret[1].end_time = Some(ctime(jobs[1].ended[1]))

\* C7: a URI gs://u, where u does not itself start with gs://, is parsed to
\* the triple u is parsed to; its bucket is the first segment of u and its
\* filename the last.
C7_PrefixIgnored ==
    (pc = "parts" /\ startswith(call.uri, GS_PREFIX))
        => LET u == SubSeq(call.uri, Len(GS_PREFIX) + 1, Len(call.uri))
           IN  ~startswith(u, GS_PREFIX)
                   => /\ ret = get_parts(u)
                      /\ ret[1] = Head(split(u, "/"))
                      /\ ret[3] = Last(split(u, "/"))

C7_Witness ==
    /\ pc = "parts"
    /\ call.uri = GS_PREFIX \o <<"b", "/", "c", "s", "v">>
    /\ ret = <<<<"b">>, <<>>, CSV_SUFFIX>>

\* C8: when the table exists and table_id is project.dataset.table,
\* load_from_gcs constructs exactly one job, a load of input_uri into the
\* table (project, dataset, table), appending, with schema autodetection
\* and the format input_uri names; the mapping returned has the one key
\* loadJob, holding that job's record.
C8_LoadJob ==
    (/\ call.op = "load_from_gcs"
     /\ call.lookup = "found"
     /\ Len(split(call.table_id, ".")) = 3)
        => /\ Len(jobs) = 1
           /\ jobs[1].kind = "load"
           /\ Len(jobs[1].destination[1]) = 3
           /\ join(jobs[1].destination[1], ".") = call.table_id
           /\ jobs[1].source = Some(call.uri)
           /\ jobs[1].job_config.write_disposition = Some("WRITE_APPEND")
           /\ jobs[1].job_config.autodetect = Some(TRUE)
           /\ jobs[1].job_config.format = file_type(call.uri)
           /\ outcome.kind = "returned"
                => /\ DOMAIN outcome.returned[1] = {"loadJob"}
                   /\ outcome.returned[1]["loadJob"] = job_result(jobs[1], jobs[1].result[1])
                   /\ jobs[1].state = "done"

C8_Witness ==
    /\ call.op = "load_from_gcs"
    /\ call.table_id = <<"p", ".", "d", "s", ".", "p">>
    /\ outcome.kind = "returned"
    /\ jobs[1].destination = Some(<<<<"p">>, <<"d", "s">>, <<"p">>>>)

\* C9: in the record __get_results returns, job_errors, total_bytes_billed,
\* total_bytes_processed and query_plan are each null when the job object
\* has no such attribute and the attribute's value otherwise, and the record
\* has its eight fields.
C9_AttributeFields ==
    pc \in ReturnedPcs
        => LET bq_job == jobs[cur]
               field(a) == IF hasattr(bq_job, a) THEN getattr(bq_job, a) ELSE None
           IN  /\ ret[1].job_errors = field("errors")
               /\ ret[1].total_bytes_billed = field("total_bytes_billed")
               /\ ret[1].total_bytes_processed = field("total_bytes_processed")
               /\ ret[1].query_plan = field("query_plan")
               /\ DOMAIN ret[1] =
                    {"start_time", "end_time", "job_errors", "total_bytes_billed",
                     "total_bytes_processed", "total_rows_returned", "query_plan",
                     "job_results"}

\* C10, as first stated: a record is built for every job whose wait has
\* ended, whether it returned or raised.
C10_RecordAfterAnyWait ==
    Cardinality(records_built) = Cardinality(waits_ended)

\* C10: a record is built only for a job whose wait returned, none for a job
\* whose wait raised; and a record, once built, is not changed by any later
\* step: it is stored and returned as it was built.
C10_RecordOnlyAfterReturn ==
    /\ [](/\ Cardinality(records_built) = Cardinality(waits_returned)
          /\ \A k \in records_built :
                \E i \in waits_returned :
                    log[k].record = Some(job_result(jobs[i], jobs[i].result[1]))
          /\ \A k \in DOMAIN job_results :
                \E n \in records_built : log[n].record = Some(job_results[k])
          /\ outcome.kind = "returned" => outcome.returned = Some(job_results))
    /\ [][/\ \A k \in DOMAIN job_results :
                k \in DOMAIN job_results' /\ job_results'[k] = job_results[k]
          /\ \A k \in records_built :
                k \in records_built' /\ log'[k] = log[k]
          /\ (ret' # ret) => (Cardinality(records_built') = Cardinality(records_built) + 1)
         ]_vars

C10_Witness ==
    /\ call.op = "send_to_gcs"
    /\ Len(jobs) = 2
    /\ jobs[1].state = "done"
    /\ jobs[2].state = "failed"
    /\ Cardinality(records_built) = 1
    /\ DOMAIN job_results = {"queryJob"}

====
